---------------------------- MODULE Spec2Model ----------------------------
(***************************************************************************)
(* A model of convert.py (kaijchen/image-converter): the conversion of a   *)
(* docker-save image archive into per-layer metadata documents plus a      *)
(* shared content-addressed pool.                                          *)
(*                                                                         *)
(* Two specifications are given.                                           *)
(*   Spec      one process running Image(path).convert() several times,    *)
(*             one run after the other, over a file system and a pool      *)
(*             that persist between the runs.                              *)
(*   SpecConc  two processes executing lines 84-89 of                      *)
(*             UnpackedLayer.convert at the same time against one pool.    *)
(*                                                                         *)
(* Byte strings are modelled symbolically: a regular file of a layer is a  *)
(* string, an archive is Tar(<directory>), a JSON file is                  *)
(* Dumps(<document>), and SHA-256 is an injective symbolic digest.  Text   *)
(* that the program parses (repository tags) is a sequence of characters.  *)
(***************************************************************************)
EXTENDS Integers, Sequences, FiniteSets, TLC

(***************************************************************************)
(* Bounds of the model.                                                    *)
(***************************************************************************)
\* number of conversions run one after the other
MaxRuns == 2
\* number of nonzero exits of the archive codec over all runs
MaxFaults == 2
\* number of files each concurrent process inserts (SpecConc)
MaxFiles == 2

(***************************************************************************)
(* Program constants.                                                      *)
(***************************************************************************)
J_MODE == "mode"
J_DIRENT == "dirents"
J_SIZE == "size"
J_HASH == "hash"
J_LINK == "link"

\* the literal '-lazy' of line 138 and the separator ':' of lines 137, 141
LazySuffix == <<"-", "l", "a", "z", "y">>
TagSep == ":"
\* the literal 'sha256:' of line 123
DiffIdPrefix == "sha256:"

\* the absent value of a slot that otherwise holds a record or a function
None == <<>>

(***************************************************************************)
(* stat.S_ISLNK, stat.S_ISDIR on an st_mode: the file type is bits 12..15. *)
(***************************************************************************)
S_IFMT(mode) == (mode \div 4096) % 16
S_ISLNK(mode) == S_IFMT(mode) = 10
S_ISDIR(mode) == S_IFMT(mode) = 4
S_ISREG(mode) == S_IFMT(mode) = 8

(***************************************************************************)
(* File-system nodes of an unpacked layer.  A directory holds its entries  *)
(* by name; a symbolic link holds its raw target and what the target      *)
(* resolves to when followed ("dir", "reg" or "none" for a dangling link). *)
(***************************************************************************)
DirNode(ents) == [mode |-> 16877, ents |-> ents]
RegNode(data) == [mode |-> 33188, data |-> data]
LnkNode(target, resolves) == [mode |-> 41471, target |-> target, resolves |-> resolves]

(***************************************************************************)
(* Symbolic byte strings.                                                  *)
(***************************************************************************)
\* the archive tar -cf writes of a directory, and a cut-off archive
Tar(dir) == [tar |-> dir, truncated |-> FALSE]
TruncatedTar(dir) == [tar |-> dir, truncated |-> TRUE]
\* json.dump(doc, separators=jsonSep)
Dumps(doc) == [json |-> doc, newline |-> FALSE]
\* json.dump(doc, ...) followed by fp.write('\n')
DumpsLn(doc) == [json |-> doc, newline |-> TRUE]
\* the hex digest of a byte string (injective: SHA-256 taken collision-free)
Sha256Hex(bytes) == <<"sha256hex", bytes>>

\* sha256sum(path): the digest of the bytes of the file at path
sha256sum(bytes) == Sha256Hex(bytes)


(***************************************************************************)
(* Small helpers.                                                          *)
(***************************************************************************)
RECURSIVE SeqOfSet(_)
\* the elements of a finite set in some fixed order (a directory listing)
SeqOfSet(S) ==
    IF S = {} THEN <<>>
    ELSE LET x == CHOOSE y \in S : TRUE IN <<x>> \o SeqOfSet(S \ {x})

Range(f) == {f[i] : i \in DOMAIN f}

(***************************************************************************)
(* UnpackedLayer.convert, lines 67-92.                                     *)
(***************************************************************************)
\* os.walk puts an entry into `dirs` when is_dir() holds of it FOLLOWING
\* symbolic links, and into `files` otherwise (line 70)
WalkIsDir(node) ==
    \/ S_ISDIR(node.mode)
    \/ S_ISLNK(node.mode) /\ node.resolves = "dir"

\* os.walk descends into the real sub-directories only, never into a link
WalkDescends(node) == S_ISDIR(node.mode)

RECURSIVE BuildDirent(_)
\* the dirent recorded for one entry: lines 72-77 for the entries os.walk
\* lists in `dirs` (filled by the later iterations of line 70 when the walk
\* descends into it), lines 78-89 for those it lists in `files`
BuildDirent(node) ==
    IF WalkIsDir(node)
    THEN (J_MODE :> node.mode) @@
         (J_DIRENT :> IF WalkDescends(node)
                      THEN [n \in DOMAIN node.ents |-> BuildDirent(node.ents[n])]
                      ELSE None)
    ELSE IF S_ISLNK(node.mode)
    THEN (J_MODE :> node.mode) @@ (J_SIZE :> Len(node.target)) @@
         (J_LINK :> node.target)
    ELSE (J_MODE :> node.mode) @@ (J_SIZE :> Len(node.data)) @@
         (J_HASH :> sha256sum(node.data))

\* the root dict of line 68 once the walk has ended
BuildRoot(ents) ==
    (J_MODE :> 16877) @@
    (J_DIRENT :> [n \in DOMAIN ents |-> BuildDirent(ents[n])])

RECURSIVE HashedFiles(_)
\* the contents of the entries that reach line 84, in the order of the walk:
\* the `files` of a directory that are no links, then those of the
\* directories below it
HashedFiles(ents) ==
    LET names == SeqOfSet(DOMAIN ents)
        here == SelectSeq(names, LAMBDA n : ~WalkIsDir(ents[n]) /\ ~S_ISLNK(ents[n].mode))
        below == SelectSeq(names, LAMBDA n : WalkDescends(ents[n]))
        RECURSIVE Sub(_)
        Sub(i) == IF i > Len(below) THEN <<>>
                  ELSE HashedFiles(ents[below[i]].ents) \o Sub(i + 1)
    IN [i \in 1..Len(here) |-> ents[here[i]].data] \o Sub(1)

\* shutil.copyfile(path, target) into the pool: the entry holds the bytes, and
\* counts how often a copy into this name was started
CopyIntoPool(p, h, data) ==
    IF h \in DOMAIN p
    THEN [p EXCEPT ![h] = [data |-> data, complete |-> TRUE, copies |-> @.copies + 1]]
    ELSE p @@ (h :> [data |-> data, complete |-> TRUE, copies |-> 1])

\* lines 84-88 with an unconditional copy (the existence check left out)
PoolPutAlways(p, data) == CopyIntoPool(p, sha256sum(data), data)

\* lines 84-88 with the hash recorded but nothing stored
PoolPutNever(p, data) == p

\* lines 84-88: hash the file, copy it into the pool unless the name exists
PoolPut(p, data) ==
    LET hash == sha256sum(data)
    IN IF hash \in DOMAIN p THEN p ELSE CopyIntoPool(p, hash, data)

RECURSIVE PoolPutAll(_, _)
\* the pool after the walk has passed line 88 for each file of `datas`
PoolPutAll(p, datas) ==
    IF datas = <<>> THEN p
    ELSE PoolPutAll(PoolPut(p, Head(datas)), Tail(datas))

\* how often line 87 was evaluated per hash, after this walk
CountPuts(c, datas) ==
    LET hs == {sha256sum(datas[i]) : i \in DOMAIN datas}
        add(h) == Cardinality({i \in DOMAIN datas : sha256sum(datas[i]) = h})
    IN [h \in DOMAIN c \cup hs |->
          (IF h \in DOMAIN c THEN c[h] ELSE 0) + (IF h \in hs THEN add(h) ELSE 0)]

\* a layer directory: its file tree (None once line 90 has emptied it) and
\* the metadata document written by lines 91-92 (None before)
UnpackedDir(ents) == [tree |-> ents, metadata |-> None, converted |-> FALSE]
ConvertedDir(ents) == [tree |-> None, metadata |-> Dumps(BuildRoot(ents)), converted |-> TRUE]

(***************************************************************************)
(* The input images.  Each is what tar -xf of the source archive yields:   *)
(* manifest.json, repositories, the config document, and one directory per *)
(* layer holding layer.tar, VERSION and json.                              *)
(***************************************************************************)
Images == {"good", "twin", "nocfg", "dup", "port"}

\* the file tree packed in the layer archive <id>/layer.tar
LayerTree(id) ==
    CASE id = "A" -> ("a.txt" :> RegNode("hello"))
      [] id = "B" -> ("b.txt" :> RegNode("hello")) @@
                     ("c" :> LnkNode("/a.txt", "none")) @@
                     ("d" :> DirNode(("e.txt" :> RegNode("world")))) @@
                     ("ld" :> LnkNode("d", "dir"))
      [] id = "C" -> ("f" :> RegNode("world")) @@
                     ("lf" :> LnkNode("f", "reg")) @@
                     ("empty" :> DirNode(None))

LayerArchive(id) == Tar(UnpackedDir(LayerTree(id)))

\* a layer archive path of the manifest, as its components
LayerPath(id) == <<id, "layer.tar">>

Tag1 == <<"r", ":", "1">>
Tag2 == <<"r", ":", "2">>
Tag1Lazy == <<"r", ":", "1">> \o LazySuffix
TagPort == <<"h", ":", "5", "/", "r", ":", "1">>

\* manifest.json[0]
InputManifest(img) ==
    CASE img = "good" -> [Config |-> <<"good", ".json">>, RepoTags |-> <<Tag1, Tag2>>,
                          Layers |-> <<LayerPath("A"), LayerPath("B")>>]
      [] img = "twin" -> [Config |-> <<"twin", ".json">>, RepoTags |-> <<Tag1, Tag1Lazy>>,
                          Layers |-> <<LayerPath("C"), LayerPath("A")>>]
      [] img = "nocfg" -> [RepoTags |-> <<Tag1>>, Layers |-> <<LayerPath("A")>>]
      [] img = "dup" -> [Config |-> <<"dup", ".json">>, RepoTags |-> <<Tag1>>,
                         Layers |-> <<LayerPath("A"), LayerPath("A")>>]
      [] img = "port" -> [Config |-> <<"port", ".json">>, RepoTags |-> <<TagPort>>,
                          Layers |-> <<LayerPath("C")>>]

\* the top layer of an image, which `repositories` maps every tag to
TopLayer(img) ==
    LET ls == InputManifest(img).Layers IN ls[Len(ls)][1]

\* repositories: name -> version -> layer id
InputRepositories(img) ==
    LET top == TopLayer(img)
    IN CASE img = "good" -> (<<"r">> :> ((<<"1">> :> top) @@ (<<"2">> :> top)))
         [] img = "twin" -> (<<"r">> :> ((<<"1">> :> top) @@ ((<<"1">> \o LazySuffix) :> top)))
         [] img = "port" -> (<<"h">> :> (<<"5", "/", "r">> :> top))
         [] OTHER -> (<<"r">> :> (<<"1">> :> top))

\* the config document: the diff ids of the ORIGINAL layer archives
InputConfig(img) ==
    LET ls == InputManifest(img).Layers
    IN [os |-> "linux",
        rootfs |-> [type |-> "layers",
                    diff_ids |-> [i \in 1..Len(ls) |->
                                    <<DiffIdPrefix, sha256sum(LayerArchive(ls[i][1]))>>]]]


(***************************************************************************)
(* Text helpers: str.split and str.join on sequences of characters.        *)
(***************************************************************************)
RECURSIVE Split(_, _)
\* s.split(sep): the fields of s between the occurrences of sep
Split(s, sep) ==
    IF \A i \in DOMAIN s : s[i] # sep THEN <<s>>
    ELSE LET k == CHOOSE i \in DOMAIN s :
                     s[i] = sep /\ \A j \in 1..(i - 1) : s[j] # sep
         IN <<SubSeq(s, 1, k - 1)>> \o Split(SubSeq(s, k + 1, Len(s)), sep)

RECURSIVE Join(_, _)
\* sep.join(parts)
Join(parts, sep) ==
    IF parts = <<>> THEN <<>>
    ELSE IF Len(parts) = 1 THEN parts[1]
    ELSE parts[1] \o <<sep>> \o Join(Tail(parts), sep)

(***************************************************************************)
(* mkdir, lines 20-26: TRUE when the path is a fresh empty directory       *)
(* afterwards, FALSE when the existing directory was kept.  Every path the *)
(* program hands to mkdir is absent or a directory of its own making.      *)
(***************************************************************************)
mkdir(exists, skipIfExist) ==
    IF exists /\ skipIfExist THEN FALSE ELSE TRUE

(***************************************************************************)
(* Layer and UnpackedLayer handles, lines 41-44 and 54-57: the id is the   *)
(* name of the directory that holds the path's last component.             *)
(***************************************************************************)
Layer(path) == [src |-> path, id |-> path[Len(path) - 1]]
UnpackedLayer(path) == [src |-> path, id |-> path[Len(path) - 1]]

(***************************************************************************)
(* The state.                                                              *)
(***************************************************************************)
VARIABLES
    pc,              \* where Image.convert stands in the current run
    exc,             \* the uncaught exception that ended the run, "" if none
    img,             \* the image of the current run (Image._name)
    runs,            \* conversions started so far
    faults,          \* nonzero exits of the archive codec so far
    log,             \* the records logged by the current run
    tarExits,        \* the exit status of each tar call of the current run
    manifest,        \* Image._manifest[0]
    repositories,    \* Image._repositories
    config,          \* Image._config
    layers,          \* Image._layers
    unpackedLayers,  \* Image._unpackedLayers
    idx,             \* layers passed by the loop of line 120
    pool,            \* the pool directory: hash -> entry
    puts,            \* hash -> how often line 87 was evaluated for it
    orig,            \* per image: the directory <name>/orig
    temp,            \* per image: the directory <name>/temp
    lazy,            \* per image: the directory <name>/lazy
    target,          \* per image: the archive <name>-lazy.tar
    atStart,         \* pool, temp, lazy and target when the current run began
    wpc,             \* SpecConc: per process, its place in lines 84-89
    wfiles,          \* SpecConc: per process, the files still to insert
    wmeta            \* SpecConc: per process, the hashes put in its dirents

memVars == <<manifest, repositories, config, layers, unpackedLayers, idx>>
fsVars == <<pool, puts, orig, temp, lazy, target>>
concVars == <<wpc, wfiles, wmeta>>
vars == <<pc, exc, img, runs, faults, log, tarExits, manifest, repositories,
          config, layers, unpackedLayers, idx, pool, puts, orig, temp, lazy, target,
          atStart, wpc, wfiles, wmeta>>

NoDir == [exists |-> FALSE, layers |-> None, configName |-> None,
          configBytes |-> None, repositories |-> None, manifest |-> None]
EmptyDir == [NoDir EXCEPT !.exists = TRUE]

Procs == {1, 2}

ConcIdle ==
    /\ wpc = [w \in Procs |-> "off"]
    /\ wfiles = [w \in Procs |-> <<>>]
    /\ wmeta = [w \in Procs |-> {}]

Init ==
    /\ pc = "idle"
    /\ exc = ""
    /\ img = "good"
    /\ runs = 0
    /\ faults = 0
    /\ log = <<>>
    /\ tarExits = <<>>
    /\ manifest = None
    /\ repositories = None
    /\ config = None
    /\ layers = <<>>
    /\ unpackedLayers = <<>>
    /\ idx = 0
    /\ pool = None
    /\ puts = None
    /\ orig = [i \in Images |-> "absent"]
    /\ temp = [i \in Images |-> NoDir]
    /\ lazy = [i \in Images |-> NoDir]
    /\ target = [i \in Images |-> None]
    /\ atStart = [pool |-> None, temp |-> NoDir, lazy |-> NoDir, target |-> None]
    /\ ConcIdle

Running == pc \notin {"idle", "done"} /\ exc = ""

(***************************************************************************)
(* Image.__init__ and the call of convert, lines 95-104 and 183.  The      *)
(* process of an earlier run has exited (normally or by an exception).     *)
(***************************************************************************)
StartRun(i) ==
    /\ ~Running
    /\ runs < MaxRuns
    /\ runs' = runs + 1
    /\ img' = i
    /\ pc' = "untar"
    /\ exc' = ""
    /\ log' = <<>>
    /\ tarExits' = <<>>
    /\ manifest' = None
    /\ repositories' = None
    /\ config' = None
    /\ layers' = <<>>
    /\ unpackedLayers' = <<>>
    /\ idx' = 0
    \* mkdir(self._pool, skipIfExist=True) keeps an existing pool
    /\ pool' = (IF mkdir(runs > 0, TRUE) THEN None ELSE pool)
    /\ atStart' = [pool |-> pool', temp |-> temp[i], lazy |-> lazy[i],
                   target |-> target[i]]
    /\ UNCHANGED <<faults, puts, orig, temp, lazy, target>>
    /\ UNCHANGED concVars

(***************************************************************************)
(* Image._untar, lines 157-165.                                            *)
(***************************************************************************)
\* _untar with a nonzero exit turned into an abort
UntarFailureAborts(code) == IF code # 0 THEN "SystemExit" ELSE ""

\* what _untar does about the exit code: it logs, and raises nothing
UntarFailure(code) == ""

Untar ==
    /\ pc = "untar" /\ exc = ""
    /\ LET fresh == mkdir(orig[img] # "absent", TRUE)
       IN \/ /\ ~fresh
             /\ log' = log \o <<"untaring", "skipping untar">>
             /\ pc' = "load"
             /\ UNCHANGED <<exc, orig, faults, tarExits>>
          \/ /\ fresh
             /\ orig' = [orig EXCEPT ![img] = "complete"]
             /\ tarExits' = Append(tarExits, [op |-> "untar", id |-> img, code |-> 0])
             /\ log' = log \o <<"untaring">>
             /\ exc' = UntarFailure(0)
             /\ pc' = "load"
             /\ UNCHANGED faults
          \/ /\ fresh
             /\ faults < MaxFaults
             /\ faults' = faults + 1
             /\ \E left \in {"nomanifest", "truncated"} :
                    orig' = [orig EXCEPT ![img] = left]
             /\ tarExits' = Append(tarExits, [op |-> "untar", id |-> img, code |-> 2])
             /\ log' = log \o <<"untaring", "failed to untar">>
             /\ exc' = UntarFailure(2)
             /\ pc' = "load"
    /\ UNCHANGED <<img, runs, atStart, pool, puts, temp, lazy, target>>
    /\ UNCHANGED memVars
    /\ UNCHANGED concVars

(***************************************************************************)
(* Image._loadManifest, lines 167-176.                                     *)
(***************************************************************************)
\* _loadManifest reading the config name with a default instead of
\* self._manifest[0]['Config']
ConfigKeyErrorNever(m) == FALSE

\* line 172: self._manifest[0]['Config'] raises KeyError without the key
ConfigKeyError(m) == "Config" \notin DOMAIN m

LoadManifest ==
    /\ pc = "load" /\ exc = ""
    /\ IF orig[img] = "nomanifest"
       THEN \* open() of line 168 finds no manifest.json
            /\ exc' = "FileNotFoundError"
            /\ UNCHANGED <<pc, log>>
            /\ UNCHANGED memVars
       ELSE IF ConfigKeyError(InputManifest(img))
       THEN /\ exc' = "KeyError"
            /\ manifest' = InputManifest(img)
            /\ repositories' = InputRepositories(img)
            /\ UNCHANGED <<pc, log, config, layers, unpackedLayers, idx>>
       ELSE /\ manifest' = InputManifest(img)
            /\ repositories' = InputRepositories(img)
            /\ config' = InputConfig(img)
            /\ layers' = [k \in 1..Len(InputManifest(img).Layers) |->
                            Layer(<<"orig">> \o InputManifest(img).Layers[k])]
            /\ log' = Append(log, "parse manifest success")
            /\ pc' = "unpack"
            /\ UNCHANGED <<exc, unpackedLayers, idx>>
    /\ UNCHANGED <<img, runs, faults, tarExits, atStart>>
    /\ UNCHANGED fsVars
    /\ UNCHANGED concVars


(***************************************************************************)
(* The archive codec.  tar exits 0 having done its work, or nonzero.  A    *)
(* truncated archive cannot be read: tar -xf exits nonzero on it.  A       *)
(* failing tar -xf has extracted nothing or everything (the failure came   *)
(* before the first or after the last member); a failing tar -cf leaves a  *)
(* cut-off archive.                                                        *)
(***************************************************************************)
TarExtract(archive, mayFail) ==
    IF archive.truncated
    THEN {[code |-> 2, tree |-> None, fault |-> 0]}
    ELSE {[code |-> 0, tree |-> archive.tar.tree, fault |-> 0]} \cup
         (IF mayFail
          THEN {[code |-> 2, tree |-> None, fault |-> 1],
                [code |-> 2, tree |-> archive.tar.tree, fault |-> 1]}
          ELSE {})

TarCreate(dir, mayFail) ==
    {[code |-> 0, bytes |-> Tar(dir), fault |-> 0]} \cup
    (IF mayFail THEN {[code |-> 2, bytes |-> TruncatedTar(dir), fault |-> 1]} ELSE {})

\* the layer archive found under <name>/orig/<id>/layer.tar
OrigLayerArchive(o, id) ==
    IF o = "truncated" THEN TruncatedTar(UnpackedDir(LayerTree(id)))
    ELSE LayerArchive(id)

\* the sidecar files <name>/orig/<id>/VERSION and <name>/orig/<id>/json
OrigSidecar(id, name) == <<id, name>>

(***************************************************************************)
(* Image._unpackLayers, lines 150-155, and Layer.unpack, lines 46-51.      *)
(***************************************************************************)
UnpackLayersBegin ==
    /\ pc = "unpack" /\ exc = ""
    \* mkdir(self._tmp()): an existing scratch directory is wiped
    /\ temp' = [temp EXCEPT ![img] =
                  IF mkdir(temp[img].exists, FALSE) THEN EmptyDir ELSE @]
    /\ unpackedLayers' = <<>>
    /\ pc' = "unpack_loop"
    /\ UNCHANGED <<exc, img, runs, faults, log, tarExits, atStart>>
    /\ UNCHANGED <<manifest, repositories, config, layers, idx>>
    /\ UNCHANGED <<pool, puts, orig, lazy, target>>
    /\ UNCHANGED concVars

\* what Layer.unpack does about tar's exit code: subprocess.run without
\* check=True raises nothing
UnpackFailure(code) == ""

UnpackLayer ==
    /\ pc = "unpack_loop" /\ exc = ""
    /\ Len(unpackedLayers) < Len(layers)
    /\ LET layer == layers[Len(unpackedLayers) + 1]
           path == <<"temp", layer.id, "layer">>
       IN IF layer.id \in DOMAIN temp[img].layers
          THEN \* os.makedirs(path) of line 49 on an existing directory
               /\ exc' = "FileExistsError"
               /\ UNCHANGED <<temp, unpackedLayers, faults, tarExits>>
          ELSE \E res \in TarExtract(OrigLayerArchive(orig[img], layer.id),
                                     faults < MaxFaults) :
               /\ temp' = [temp EXCEPT ![img].layers =
                             @ @@ (layer.id :> UnpackedDir(res.tree))]
               /\ tarExits' = Append(tarExits,
                                [op |-> "unpack", id |-> layer.id, code |-> res.code])
               /\ faults' = faults + res.fault
               /\ exc' = UnpackFailure(res.code)
               /\ unpackedLayers' = Append(unpackedLayers, UnpackedLayer(path))
    /\ UNCHANGED <<pc, img, runs, log, atStart>>
    /\ UNCHANGED <<manifest, repositories, config, layers, idx>>
    /\ UNCHANGED <<pool, puts, orig, lazy, target>>
    /\ UNCHANGED concVars

(***************************************************************************)
(* Image._assembleLayers, lines 117-127, with UnpackedLayer.convert and    *)
(* UnpackedLayer.pack.                                                     *)
(***************************************************************************)
\* line 119 left out: the diff ids of the input config stay in the list
KeepDiffIds(cfg) == cfg

\* line 119: self._config['rootfs']['diff_ids'] = []
ResetDiffIds(cfg) == [cfg EXCEPT !.rootfs.diff_ids = <<>>]

AssembleLayersBegin ==
    /\ pc = "unpack_loop" /\ exc = ""
    /\ Len(unpackedLayers) = Len(layers)
    \* mkdir(self._dst()): an existing destination tree is wiped
    /\ lazy' = [lazy EXCEPT ![img] =
                  IF mkdir(lazy[img].exists, FALSE) THEN EmptyDir ELSE @]
    /\ config' = ResetDiffIds(config)
    /\ idx' = 0
    /\ pc' = "assemble_loop"
    /\ UNCHANGED <<exc, img, runs, faults, log, tarExits, atStart>>
    /\ UNCHANGED <<manifest, repositories, layers, unpackedLayers>>
    /\ UNCHANGED <<pool, puts, orig, temp, target>>
    /\ UNCHANGED concVars

\* what UnpackedLayer.pack does about tar's exit code: subprocess.run
\* without check=True raises nothing
PackFailure(code) == ""

\* line 123
Checksum(bytes) == <<DiffIdPrefix, sha256sum(bytes)>>

AssembleLayer ==
    /\ pc = "assemble_loop" /\ exc = ""
    /\ idx < Len(unpackedLayers)
    /\ LET layer == unpackedLayers[idx + 1]
           tree == temp[img].layers[layer.id].tree
           datas == HashedFiles(tree)
           converted == ConvertedDir(tree)
       IN \* layer.convert('metadata.json', self._pool)
          /\ pool' = PoolPutAll(pool, datas)
          /\ puts' = CountPuts(puts, datas)
          /\ temp' = [temp EXCEPT ![img].layers[layer.id] = converted]
          /\ IF layer.id \in DOMAIN lazy[img].layers
             THEN \* os.makedirs(dirpath) of line 62 on an existing directory
                  /\ exc' = "FileExistsError"
                  /\ UNCHANGED <<lazy, config, idx, log, faults, tarExits>>
             ELSE \E res \in TarCreate(converted, faults < MaxFaults) :
                  LET packedLayer == Layer(<<"lazy", layer.id, "layer.tar">>)
                      checksum == Checksum(res.bytes)
                  IN /\ tarExits' = Append(tarExits,
                                      [op |-> "pack", id |-> layer.id, code |-> res.code])
                     /\ faults' = faults + res.fault
                     /\ exc' = PackFailure(res.code)
                     /\ config' = [config EXCEPT !.rootfs.diff_ids = Append(@, checksum)]
                     /\ log' = Append(log, "assembled layer")
                     \* lines 126-127 copy the sidecars by layer id
                     /\ lazy' = [lazy EXCEPT ![img].layers = @ @@
                                  (packedLayer.id :>
                                     [tar |-> res.bytes,
                                      VERSION |-> OrigSidecar(layer.id, "VERSION"),
                                      json |-> OrigSidecar(layer.id, "json")])]
                     /\ idx' = idx + 1
    /\ UNCHANGED <<pc, img, runs, atStart>>
    /\ UNCHANGED <<manifest, repositories, layers, unpackedLayers>>
    /\ UNCHANGED <<orig, target>>
    /\ UNCHANGED concVars


(***************************************************************************)
(* Image._writeConfigs, lines 129-148.                                     *)
(***************************************************************************)
SetKey(f, k, v) == [x \in DOMAIN f \cup {k} |-> IF x = k THEN v ELSE f[x]]
DelKey(f, k) == [x \in DOMAIN f \ {k} |-> f[x]]

\* line 130 taken of the config as it was before any diff id was appended
configHashStale(cfg) == Sha256Hex(Dumps(ResetDiffIds(cfg)))

\* line 130: the digest of the serialized config
configHash(cfg) == Sha256Hex(Dumps(cfg))

\* line 131
configName(cfg) == <<configHash(cfg), ".json">>

RECURSIVE Retag(_, _, _)
\* the loop of lines 136-141 over the tags still to do: the exception that
\* ended it (if any), self._repositories and the list `tags` at that point
Retag(todo, repos, tags) ==
    IF todo = <<>> THEN [exc |-> "", repositories |-> repos, tags |-> tags]
    ELSE LET parts == Split(Head(todo), TagSep)
         IN IF Len(parts) # 2
            THEN \* name, ver = tag.split(':') cannot unpack
                 [exc |-> "ValueError", repositories |-> repos, tags |-> tags]
            ELSE LET name == parts[1]
                     ver == parts[2]
                     newver == ver \o LazySuffix
                 IN IF name \notin DOMAIN repos \/ ver \notin DOMAIN repos[name]
                    THEN [exc |-> "KeyError", repositories |-> repos, tags |-> tags]
                    ELSE LET moved == [repos EXCEPT ![name] =
                                         DelKey(SetKey(@, newver, repos[name][ver]), ver)]
                         IN Retag(Tail(todo), moved,
                                  Append(tags, Join(<<name, newver>>, TagSep)))

WriteConfigs ==
    /\ pc = "assemble_loop" /\ exc = ""
    /\ idx = Len(unpackedLayers)
    /\ LET name == configName(config)
           res == Retag(manifest.RepoTags, repositories, <<>>)
           withConfig == [manifest EXCEPT !.Config = name]
           withTags == [withConfig EXCEPT !.RepoTags = res.tags]
       IN /\ repositories' = res.repositories
          /\ exc' = res.exc
          /\ IF res.exc # ""
             THEN \* the loop raised: only the config file has been written
                  /\ manifest' = withConfig
                  /\ lazy' = [lazy EXCEPT ![img].configName = name,
                                          ![img].configBytes = Dumps(config)]
                  /\ UNCHANGED pc
             ELSE /\ manifest' = withTags
                  /\ lazy' = [lazy EXCEPT ![img].configName = name,
                                          ![img].configBytes = Dumps(config),
                                          ![img].repositories = DumpsLn(res.repositories),
                                          ![img].manifest = DumpsLn(<<withTags>>)]
                  /\ pc' = "target"
    /\ UNCHANGED <<img, runs, faults, log, tarExits, atStart>>
    /\ UNCHANGED <<config, layers, unpackedLayers, idx>>
    /\ UNCHANGED <<pool, puts, orig, temp, target>>
    /\ UNCHANGED concVars

(***************************************************************************)
(* Image._assembleTarget, lines 114-115.                                   *)
(***************************************************************************)
AssembleTarget ==
    /\ pc = "target" /\ exc = ""
    /\ \E res \in TarCreate(lazy[img], faults < MaxFaults) :
         /\ target' = [target EXCEPT ![img] = res.bytes]
         /\ tarExits' = Append(tarExits, [op |-> "target", id |-> img, code |-> res.code])
         /\ faults' = faults + res.fault
    /\ pc' = "done"
    /\ UNCHANGED <<exc, img, runs, log, atStart>>
    /\ UNCHANGED memVars
    /\ UNCHANGED <<pool, puts, orig, temp, lazy>>
    /\ UNCHANGED concVars

Next ==
    \/ \E i \in Images : StartRun(i)
    \/ Untar
    \/ LoadManifest
    \/ UnpackLayersBegin
    \/ UnpackLayer
    \/ AssembleLayersBegin
    \/ AssembleLayer
    \/ WriteConfigs
    \/ AssembleTarget

Spec == Init /\ [][Next]_vars


(***************************************************************************)
(* SpecConc: two conversions inside the loop of lines 78-89 at once, on    *)
(* one pool.  Each process is at line 87 ("check"), inside                 *)
(* shutil.copyfile of line 88 after it opened the target for writing       *)
(* ("copy"), at line 89 ("record"), or past the loop ("end").              *)
(* copyfile opens the target with mode 'wb', which creates it or cuts an   *)
(* existing file to length zero, and writes the bytes afterwards: until    *)
(* every process that opened the entry has written it, the entry is        *)
(* incomplete.                                                             *)
(***************************************************************************)
Contents == {"hello", "world"}

FileLists == UNION {[1..n -> Contents] : n \in 1..MaxFiles}

InitConc ==
    /\ pc = "idle"
    /\ exc = ""
    /\ img = "good"
    /\ runs = 0
    /\ faults = 0
    /\ log = <<>>
    /\ tarExits = <<>>
    /\ manifest = None
    /\ repositories = None
    /\ config = None
    /\ layers = <<>>
    /\ unpackedLayers = <<>>
    /\ idx = 0
    /\ pool = None
    /\ puts = None
    /\ orig = [i \in Images |-> "absent"]
    /\ temp = [i \in Images |-> NoDir]
    /\ lazy = [i \in Images |-> NoDir]
    /\ target = [i \in Images |-> None]
    /\ atStart = [pool |-> None, temp |-> NoDir, lazy |-> NoDir, target |-> None]
    /\ wpc = [w \in Procs |-> "check"]
    /\ wfiles \in [Procs -> FileLists]
    /\ wmeta = [w \in Procs |-> {}]

WHash(w) == sha256sum(Head(wfiles[w]))

\* no conversion of Spec runs beside the two processes
SeqIdle ==
    /\ UNCHANGED <<pc, exc, img, runs, faults, log, tarExits, atStart>>
    /\ UNCHANGED memVars
    /\ UNCHANGED <<puts, orig, temp, lazy, target>>

\* line 87: os.path.exists(target)
WCheck(w) ==
    /\ wpc[w] = "check"
    /\ wpc' = [wpc EXCEPT ![w] = IF WHash(w) \in DOMAIN pool THEN "record" ELSE "open"]
    /\ UNCHANGED <<pool, wfiles, wmeta>>
    /\ SeqIdle

\* line 88, first half: copyfile opens the target, creating or cutting it
WCopyOpen(w) ==
    /\ wpc[w] = "open"
    /\ pool' = IF WHash(w) \in DOMAIN pool
               THEN [pool EXCEPT ![WHash(w)] =
                       [data |-> "", complete |-> FALSE, copies |-> @.copies + 1]]
               ELSE pool @@ (WHash(w) :> [data |-> "", complete |-> FALSE, copies |-> 1])
    /\ wpc' = [wpc EXCEPT ![w] = "copy"]
    /\ UNCHANGED <<wfiles, wmeta>>
    /\ SeqIdle

\* line 88, second half: the bytes are written and the target is closed
WCopyClose(w) ==
    /\ wpc[w] = "copy"
    /\ pool' = [pool EXCEPT ![WHash(w)] =
                  [data |-> Head(wfiles[w]),
                   complete |-> \A v \in Procs \ {w} :
                                   ~(wpc[v] = "copy" /\ WHash(v) = WHash(w)),
                   copies |-> @.copies]]
    /\ wpc' = [wpc EXCEPT ![w] = "record"]
    /\ UNCHANGED <<wfiles, wmeta>>
    /\ SeqIdle

\* line 89: the dirent with the hash is put into the tree; next file
WRecord(w) ==
    /\ wpc[w] = "record"
    /\ wmeta' = [wmeta EXCEPT ![w] = @ \cup {WHash(w)}]
    /\ wfiles' = [wfiles EXCEPT ![w] = Tail(@)]
    /\ wpc' = [wpc EXCEPT ![w] = IF Tail(wfiles[w]) = <<>> THEN "end" ELSE "check"]
    /\ UNCHANGED pool
    /\ SeqIdle

NextConc ==
    \/ \E w \in Procs : WCheck(w)
    \/ \E w \in Procs : WCopyOpen(w)
    \/ \E w \in Procs : WCopyClose(w)
    \/ \E w \in Procs : WRecord(w)

SpecConc == InitConc /\ [][NextConc]_vars


(***************************************************************************)
(* Operators the properties are stated with.                               *)
(***************************************************************************)
RECURSIVE FsFacts(_, _)
\* the (path, type, detail) triples of a file tree: the type is the one
\* lstat reports, the detail is the link's raw target or the file's digest
FsFacts(ents, prefix) ==
    UNION {LET node == ents[n]
               path == Append(prefix, n)
           IN IF S_ISDIR(node.mode)
              THEN {<<path, "dir", <<"dir">>>>} \cup FsFacts(node.ents, path)
              ELSE IF S_ISLNK(node.mode)
              THEN {<<path, "lnk", <<"link", node.target, Len(node.target)>>>>}
              ELSE {<<path, "reg", <<"hash", sha256sum(node.data), Len(node.data)>>>>}
           : n \in DOMAIN ents}

RECURSIVE MetaFacts(_, _)
\* the same triples read off the dirents of a metadata tree: a node with
\* 'dirents' is a directory, one with 'link' (and no 'hash') a symbolic
\* link, one with 'hash' (and no 'link') a regular file
MetaFacts(dirents, prefix) ==
    UNION {LET node == dirents[n]
               path == Append(prefix, n)
           IN IF J_DIRENT \in DOMAIN node
              THEN {<<path, "dir", <<"dir">>>>} \cup MetaFacts(node[J_DIRENT], path)
              ELSE IF J_LINK \in DOMAIN node /\ J_SIZE \in DOMAIN node
                      /\ J_HASH \notin DOMAIN node
              THEN {<<path, "lnk", <<"link", node[J_LINK], node[J_SIZE]>>>>}
              ELSE IF J_HASH \in DOMAIN node /\ J_SIZE \in DOMAIN node
              THEN {<<path, "reg", <<"hash", node[J_HASH], node[J_SIZE]>>>>}
              ELSE {<<path, "other", <<"other">>>>}
           : n \in DOMAIN dirents}

RECURSIVE MetaHashes(_)
\* every 'hash' value of a metadata tree
MetaHashes(node) ==
    IF J_DIRENT \in DOMAIN node
    THEN UNION {MetaHashes(node[J_DIRENT][n]) : n \in DOMAIN node[J_DIRENT]}
    ELSE IF J_HASH \in DOMAIN node THEN {node[J_HASH]} ELSE {}

RECURSIVE RegularDigests(_)
\* the digests of the regular files of a file tree
RegularDigests(ents) ==
    UNION {IF S_ISDIR(ents[n].mode) THEN RegularDigests(ents[n].ents)
           ELSE IF S_ISREG(ents[n].mode) THEN {sha256sum(ents[n].data)}
           ELSE {}
           : n \in DOMAIN ents}

\* some tar call of the current run with this purpose exited nonzero
TarFailed(ops) ==
    \E k \in DOMAIN tarExits : tarExits[k].op \in ops /\ tarExits[k].code # 0

\* Image.convert has returned from _writeConfigs in the current run
AfterWriteConfigs == pc \in {"target", "done"}

(***************************************************************************)
(* C1.  Over any sequence of conversions sharing one pool, the pool holds  *)
(* exactly one blob per content hash that reached line 87, each holding    *)
(* the content of that hash and copied exactly once; and an entry, once    *)
(* stored, is left unchanged by every later step.                          *)
(***************************************************************************)
C1_PoolWriteOnce ==
    /\ [](/\ DOMAIN pool = DOMAIN puts
          /\ \A h \in DOMAIN pool :
                /\ pool[h].copies = 1
                /\ pool[h].complete
                /\ sha256sum(pool[h].data) = h)
    /\ [][\A h \in DOMAIN pool : h \in DOMAIN pool' /\ pool'[h] = pool[h]]_vars

\* a hash that was inserted three times, over two conversions
C1_Witness ==
    /\ runs = 2
    /\ \E h \in DOMAIN pool : puts[h] >= 3 /\ pool[h].copies = 1

(***************************************************************************)
(* C2.  After Image.convert has completed, the written config's            *)
(* rootfs.diff_ids is as long as the input manifest's Layers, entry i is   *)
(* 'sha256:' + the digest of the repacked archive of manifest layer i, and *)
(* no diff id of the input config is left in it.                           *)
(***************************************************************************)
C2_DiffIdsFollowLayers ==
    pc = "done" =>
        LET ids == lazy[img].configBytes.json.rootfs.diff_ids
            paths == InputManifest(img).Layers
        IN /\ Len(ids) = Len(paths)
           /\ ids = config.rootfs.diff_ids
           /\ \A k \in 1..Len(paths) :
                 /\ ids[k] = <<DiffIdPrefix,
                               sha256sum(lazy[img].layers[Layer(paths[k]).id].tar)>>
                 /\ ids[k] \notin Range(InputConfig(img).rootfs.diff_ids)

\* a completed conversion of the two-layer image whose second archiving failed
C2_Witness ==
    /\ pc = "done"
    /\ img = "good"
    /\ Len(config.rootfs.diff_ids) = 2
    /\ lazy[img].layers["B"].tar.truncated

(***************************************************************************)
(* C3.  After _writeConfigs, for every tag name:version of the input       *)
(* manifest the output RepoTags holds name:version-lazy, the repositories  *)
(* index of name maps version-lazy to the layer id version mapped to       *)
(* before, and the key version is gone (unless it is itself the new key of *)
(* another input tag).  Stated for every combination of tags.              *)
(***************************************************************************)
C3_TagsRekeyed ==
    AfterWriteConfigs =>
        LET tagsIn == InputManifest(img).RepoTags
            newKeys == {<<Split(tagsIn[k], TagSep)[1],
                          Split(tagsIn[k], TagSep)[2] \o LazySuffix>> : k \in DOMAIN tagsIn}
        IN \A k \in DOMAIN tagsIn :
             LET name == Split(tagsIn[k], TagSep)[1]
                 ver == Split(tagsIn[k], TagSep)[2]
                 newver == ver \o LazySuffix
             IN /\ Join(<<name, newver>>, TagSep) \in Range(manifest.RepoTags)
                /\ newver \in DOMAIN repositories[name]
                /\ repositories[name][newver] = InputRepositories(img)[name][ver]
                /\ ver \in DOMAIN repositories[name] => <<name, ver>> \in newKeys

(***************************************************************************)
(* C4.  The metadata tree UnpackedLayer.convert builds of a layer has      *)
(* exactly the (path, type) pairs of the layer's file tree: directories    *)
(* as nodes with 'dirents', regular files as nodes with 'size' and 'hash', *)
(* symbolic links -- whatever their target resolves to -- as nodes with    *)
(* 'size' and 'link' = the raw target and neither 'hash' nor 'dirents';    *)
(* and only the regular files' contents are put in the pool.               *)
(***************************************************************************)
C4_TreeMirrorsLayer ==
    [][\A id \in DOMAIN temp[img].layers :
          (/\ id \in DOMAIN temp'[img].layers
           /\ ~temp[img].layers[id].converted
           /\ temp'[img].layers[id].converted)
          => /\ MetaFacts(temp'[img].layers[id].metadata.json[J_DIRENT], <<>>)
                  = FsFacts(temp[img].layers[id].tree, <<>>)
             /\ DOMAIN pool' = DOMAIN pool \cup RegularDigests(temp[img].layers[id].tree)
      ]_vars

(***************************************************************************)
(* C5.  When the tar call of Layer.unpack or of UnpackedLayer.pack exits   *)
(* nonzero, the failure is raised and the conversion aborts there: no      *)
(* later step of the run happens, _writeConfigs and _assembleTarget        *)
(* included.                                                               *)
(***************************************************************************)
C5_LayerFailureAborts ==
    TarFailed({"unpack", "pack"}) => (exc # "" /\ ~AfterWriteConfigs)

(***************************************************************************)
(* C6.  A run over a manifest without the 'Config' key never gets past     *)
(* _loadManifest, which raises once it has read the manifest: no layer is  *)
(* unpacked, the pool, the scratch tree, the                               *)
(* 'lazy' tree and the output archive stay as they were when the run       *)
(* began.                                                                  *)
(***************************************************************************)
C6_NoConfigKeyAbortsEarly ==
    (runs > 0 /\ "Config" \notin DOMAIN InputManifest(img)) =>
        /\ pc \in {"untar", "load"}
        /\ manifest # None => exc = "KeyError"
        /\ unpackedLayers = <<>>
        /\ pool = atStart.pool
        /\ temp[img] = atStart.temp
        /\ lazy[img] = atStart.lazy
        /\ target[img] = atStart.target

\* the run over the manifest without 'Config' has raised, after an earlier
\* conversion that filled the pool
C6_Witness ==
    /\ "Config" \notin DOMAIN InputManifest(img)
    /\ pc = "load"
    /\ exc = "KeyError"
    /\ DOMAIN pool # {}
    /\ ~lazy[img].exists
    /\ target[img] = None

(***************************************************************************)
(* C7.  With two conversions inserting into one pool at once, under every  *)
(* interleaving no process takes the skip branch of line 87 while the      *)
(* entry is only partially written, and no entry is copied more than once. *)
(***************************************************************************)
C7_PoolNotCorrupted ==
    [][/\ \A w \in Procs :
             (wpc[w] = "check" /\ wpc'[w] = "record") => pool[WHash(w)].complete
       /\ \A h \in DOMAIN pool' : pool'[h].copies <= 1
      ]_vars

(***************************************************************************)
(* C8.  After _writeConfigs the config file in the destination tree is     *)
(* named <h>.json with h the digest of exactly the bytes in that file, the *)
(* manifest's Config (in memory and as written) is that name, the bytes    *)
(* are the serialized config as it stands, and they hold one diff id per   *)
(* layer.                                                                  *)
(***************************************************************************)
C8_ConfigNamedByItsHash ==
    AfterWriteConfigs =>
        LET d == lazy[img]
        IN /\ d.configName = <<Sha256Hex(d.configBytes), ".json">>
           /\ manifest.Config = d.configName
           /\ d.manifest.json[1].Config = d.configName
           /\ d.configBytes = Dumps(config)
           /\ Len(d.configBytes.json.rootfs.diff_ids) = Len(layers)

\* the configs have been written for an image of two layers
C8_Witness ==
    /\ AfterWriteConfigs
    /\ Len(layers) = 2
    /\ lazy[img].configName # None

C10_HashesResolveInPool ==
    \A i \in Images :
        /\ \A id \in DOMAIN temp[i].layers :
              temp[i].layers[id].converted =>
                 \A h \in MetaHashes(temp[i].layers[id].metadata.json) :
                    h \in DOMAIN pool /\ sha256sum(pool[h].data) = h
        /\ \A id \in DOMAIN lazy[i].layers :
              \A h \in MetaHashes(lazy[i].layers[id].tar.tar.metadata.json) :
                    h \in DOMAIN pool /\ sha256sum(pool[h].data) = h

\* a converted layer with hashes, after a later conversion has been started
C10_Witness ==
    /\ runs = 2
    /\ \E i \in Images \ {img} : \E id \in DOMAIN temp[i].layers :
          /\ temp[i].layers[id].converted
          /\ MetaHashes(temp[i].layers[id].metadata.json) # {}

=============================================================================
